---- MODULE Spec2Model ----
(***************************************************************************)
(* Model of the dAIet planner component (AppComponent): catalog loading    *)
(* (convertMeals), the profile translator (calculateCalories,              *)
(* calculateCost, createMealTypeConstraints), the preference filter, the   *)
(* model builder (onSubmit) and the plan assembler (getDietPlanByDays).    *)
(*                                                                         *)
(* JavaScript objects are functions from property names (strings) to       *)
(* values; an optional object (undefined or an object) is the empty set    *)
(* or a singleton.  Integer-like property names are ToString of the index, *)
(* as in JavaScript.  Nutrition and cost numbers of the catalog are held   *)
(* as integer multiples of 1/Den, so that Math.floor is not the identity.  *)
(***************************************************************************)
EXTENDS Integers, Sequences, FiniteSets, Bags, TLC

VARIABLES original, meals, ints, form, userProfile, model, model2,
          result, result2, planInput, planArg, feasible, days, thrown

vars == <<original, meals, ints, form, userProfile, model, model2,
          result, result2, planInput, planArg, feasible, days, thrown>>

(* ---------------------------- bounds ----------------------------------- *)
\* catalog numbers are multiples of 1/Den
Den == 2
\* a category of a full catalog has 7 or 7 + Spare meals
Spare == 1
\* body data entered in the form range over default .. default + span
WeightSpan == 1
HeightSpan == 3
AgeSpan == 1
\* an assembler input leaves out, or lists with the value 0, at most MaxOdd
\* meal-ids of the catalog
MaxOdd == 1

(* ------------------------ program constants ---------------------------- *)
DefaultWeight == 68
DefaultHeight == 172
DefaultAge == 25
DaysInPlan == 7

(* ----------------------------- helpers --------------------------------- *)
Undefined == {}
Obj(x) == {x}
The(s) == CHOOSE x \in s : TRUE

Key(i) == ToString(i)

Has(obj, k) == k \in DOMAIN obj
\* { ...obj, [k]: v }
Assign(obj, k, v) == (k :> v) @@ obj
\* { ...a, ...b }
Spread(a, b) == b @@ a
\* delete obj[k] for every k of ks
Delete(obj, ks) == [k \in (DOMAIN obj) \ ks |-> obj[k]]
EmptyObject == [k \in {} |-> 0]

\* Math.floor and Math.ceil of a / b, b > 0
FloorDiv(a, b) == a \div b
CeilDiv(a, b) == -((-a) \div b)

(* ------------------- the bundled meal collections ---------------------- *)
\* One raw entry of a collection (assets/meals_<category>.json): the value
\* stored under the meal's name.  Numbers are in units of 1/Den.
BaseKcal(cat) == IF cat = "breakfast" THEN 240 ELSE IF cat = "lunch" THEN 480 ELSE 600
BaseCost(cat) == IF cat = "breakfast" THEN 6 ELSE IF cat = "lunch" THEN 12 ELSE 23

MealData(cat, i) ==
    (cat :> 1) @@
    [ protein       |-> Den * (10 + i) + (i % Den),
      carbs         |-> Den * (30 + 2 * i) + ((i + 1) % Den),
      fat           |-> Den * (5 + (i % 4)) + (i % Den),
      kcal          |-> Den * (BaseKcal(cat) + 10 * ((i * 3) % 7)) + ((i % 7) % Den),
      cost          |-> Den * BaseCost(cat) + ((i * 4) % 11),
      kcal_diff     |-> Den * (((i * 5) % 11) + 1),
      isVegan       |-> ~(cat = "dinner" /\ i % 4 = 0),
      isLactoseFree |-> cat # "breakfast",
      isGlutenFree  |-> ~(cat = "lunch" /\ i % 2 = 1) ]

Entries(cat, n) ==
    [i \in 1..n |-> [key |-> cat \o "_" \o ToString(i), value |-> MealData(cat, i)]]

\* the "default" key a bundler adds to a JSON module namespace
DefaultEntry == [key |-> "default", value |-> EmptyObject]

InsertAt(s, pos, e) == SubSeq(s, 1, pos) \o <<e>> \o SubSeq(s, pos + 1, Len(s))

\* { ...meals_breakfast, ...meals_dinner, ...meals_lunch } as the sequence of
\* its own properties in enumeration order; pos = -1: no "default" key
Merged(nb, nd, nl, pos) ==
    LET all == Entries("breakfast", nb) \o Entries("dinner", nd) \o Entries("lunch", nl)
    IN  IF pos < 0 THEN all ELSE InsertAt(all, pos, DefaultEntry)

FullShapes ==
    { <<DaysInPlan, DaysInPlan, DaysInPlan>>,
      <<DaysInPlan + Spare, DaysInPlan, DaysInPlan>>,
      <<DaysInPlan, DaysInPlan + Spare, DaysInPlan>>,
      <<DaysInPlan, DaysInPlan, DaysInPlan + Spare>> }
ShortShapes ==
    { <<DaysInPlan, DaysInPlan - 1, DaysInPlan>>, <<0, DaysInPlan, DaysInPlan>> }
SmallShapes == { <<1, 1, 1>>, <<2, 0, 1>>, <<0, 0, 0>> }

\* the "default" key first, after the first collection, or not there
CollectionsOf(shapes) ==
    { Merged(s[1], s[2], s[3], pos) : s \in shapes, pos \in {-1, 0} } \cup
    { Merged(s[1], s[2], s[3], s[1]) : s \in shapes }

SmallCollections == CollectionsOf(SmallShapes)
\* "default" where the first collection's namespace ends
FullCollections == { Merged(s[1], s[2], s[3], s[1]) : s \in FullShapes \cup ShortShapes }
PlanCollections == FullCollections \cup { Merged(DaysInPlan, DaysInPlan, DaysInPlan, -1) }
\* one meal of each category and "default" after the first
TinyCollection == Merged(1, 1, 1, 1)

(* --------------------------- catalog loader ---------------------------- *)
RECURSIVE ConvertLoop(_, _, _)
\* the for-in loop of convertMeals at its i-th property; index = i - 1
ConvertLoop(orig, i, res) ==
    IF i > Len(orig) THEN res
    ELSE LET key == orig[i].key
             index == i - 1
         IN  ConvertLoop(orig, i + 1,
                 IF key # "default"
                 THEN Assign(res, Key(index),
                             Assign(Assign(orig[i].value, Key(index), 1), "name", key))
                 ELSE res)

RECURSIVE ConvertLoopKeepDefault(_, _, _)
ConvertLoopKeepDefault(orig, i, res) ==
    IF i > Len(orig) THEN res
    ELSE LET key == orig[i].key
             index == i - 1
         IN  ConvertLoopKeepDefault(orig, i + 1,
                 Assign(res, Key(index),
                        Assign(Assign(orig[i].value, Key(index), 1), "name", key)))

\* convertMeals without the test key !== 'default'
convertMealsKeepDefault(orig) == ConvertLoopKeepDefault(orig, 1, EmptyObject)

convertMeals(orig) == ConvertLoop(orig, 1, EmptyObject)

convertToSimpleObject(obj) == [k \in (DOMAIN obj) \ {"default"} |-> 1]

\* convertToConstraintsObject capping at 7 instead of 1
convertToConstraintsObjectWrongCap(obj) ==
    [k \in (DOMAIN obj) \ {"default"} |-> [max |-> DaysInPlan]]

convertToConstraintsObject(obj) == [k \in (DOMAIN obj) \ {"default"} |-> [max |-> 1]]

(* -------------------------- profile translator ------------------------- *)
\* the male and female constants swapped
Bmr100SexSwapped(p) ==
    IF p.sex = "m"
    THEN 1000 * p.weight + 625 * p.height - 500 * p.age - 16100
    ELSE 1000 * p.weight + 625 * p.height - 500 * p.age + 500

\* 100 * bmr (6.25 * height is a multiple of 1/4)
Bmr100(p) ==
    IF p.sex = "m"
    THEN 1000 * p.weight + 625 * p.height - 500 * p.age + 500
    ELSE 1000 * p.weight + 625 * p.height - 500 * p.age - 16100

ActivityAdjustment(p) ==
    IF p.activityLevel = "low" THEN 150
    ELSE IF p.activityLevel = "moderate" THEN 300 ELSE 450

\* Math.floor in place of Math.ceil
MaintenanceCaloriesFloor(p) ==
    FloorDiv(Bmr100(p) + 100 * ActivityAdjustment(p), 1000) * 10

MaintenanceCalories(p) == CeilDiv(Bmr100(p) + 100 * ActivityAdjustment(p), 1000) * 10

calculateCalories(p) ==
    LET maintenanceCalories == MaintenanceCalories(p)
    IN  IF p.target = "loose"
        THEN LET min == (maintenanceCalories - 500) * 7
             IN  [min |-> min, max |-> min + 1000]
        ELSE IF p.target = "gain"
        THEN LET min == (maintenanceCalories + 500) * 7
             IN  [min |-> (maintenanceCalories + 500) * 7, max |-> min + 1000]
        ELSE [min |-> maintenanceCalories * 7]

calculateCost(wealthLevel) ==
    [max |-> IF wealthLevel = "student" THEN 300
             ELSE IF wealthLevel = "average" THEN 500 ELSE 2000]

createMealTypeConstraints ==
    [ breakfast |-> [min |-> 7, max |-> 7],
      lunch     |-> [min |-> 7, max |-> 7],
      dinner    |-> [min |-> 7, max |-> 7] ]

(* --------------------------- preference filter ------------------------- *)
\* JavaScript truthiness of p[a] for a boolean or missing attribute
Truthy(p, a) == Has(p, a) /\ p[a] = TRUE

\* the filter's test without its lactose conjunct
KeepsNoLactose(prefs, p) ==
    /\ (~prefs.glutenFree \/ Truthy(p, "isGlutenFree"))
    /\ (~prefs.meatless \/ Truthy(p, "isVegan"))

\* the test of the filter's callback: the product passes every preference
Keeps(prefs, p) ==
    /\ (~prefs.lactoseFree \/ Truthy(p, "isLactoseFree"))
    /\ (~prefs.glutenFree \/ Truthy(p, "isGlutenFree"))
    /\ (~prefs.meatless \/ Truthy(p, "isVegan"))

\* the filter without its gluten test
filterProductsByPreferencesNoGluten(variables, userPreferences) ==
    LET kept == { k \in DOMAIN variables :
                    /\ (~userPreferences.lactoseFree \/ Truthy(variables[k], "isLactoseFree"))
                    /\ (~userPreferences.meatless \/ Truthy(variables[k], "isVegan")) }
    IN  [k \in kept |-> variables[k]]

filterProductsByPreferences(variables, userPreferences) ==
    LET kept == { k \in DOMAIN variables : Keeps(userPreferences, variables[k]) }
    IN  [k \in kept |-> variables[k]]

(* ------------------------ solver (external) ---------------------------- *)
\* attributes whose catalog values are held in units of 1/Den
ScaledAttributes == {"protein", "carbs", "fat", "kcal", "cost", "kcal_diff"}
Categories == {"breakfast", "lunch", "dinner"}
Metadata == {"feasible", "result", "bounded", "isIntegral"}

\* coefficient of a variable in the constraint or objective named c
Coef(v, c) == IF Has(v, c) THEN v[c] ELSE 0

\* the variables with a positive coefficient in each constraint and in the
\* objective of m (catalog numbers are non-negative)
Carriers(m) ==
    [c \in (DOMAIN m.constraints) \cup {m.optimize} |->
        { k \in DOMAIN m.variables : Coef(m.variables[k], c) > 0 }]

\* value of the linear form c when exactly the variables of S are 1: the sum
\* of the coefficients of its carriers in S, as the size of the bag of them
Total(m, carriers, S, c) ==
    BagCardinality([k \in { x \in carriers[c] : x \in S } |-> m.variables[k][c]])

Scale(c, b) == IF c \in ScaledAttributes THEN b * Den ELSE b

Within(c, bnd, t) ==
    /\ (Has(bnd, "min") => t >= Scale(c, bnd.min))
    /\ (Has(bnd, "max") => t <= Scale(c, bnd.max))
    /\ (Has(bnd, "equal") => t = Scale(c, bnd.equal))

\* the 0/1 assignment that selects exactly S meets every constraint of m
Satisfies(m, carriers, S) ==
    \A c \in DOMAIN m.constraints :
        Within(c, m.constraints[c], Total(m, carriers, S, c))

Group(m, c) == { k \in DOMAIN m.variables : Coef(m.variables[k], c) = 1 }
Ungrouped(m) == { k \in DOMAIN m.variables : \A c \in Categories : Coef(m.variables[k], c) # 1 }

PickCount(m, c) ==
    { T \in SUBSET Group(m, c) :
        Has(m.constraints, c) => Within(c, m.constraints[c], Cardinality(T)) }

\* the selections that meet the category-count constraints: every satisfying
\* selection is one of them (each variable is integer, >= 0 and capped at 1)
Candidates(m) ==
    { B \cup L \cup D \cup O :
        B \in PickCount(m, "breakfast"), L \in PickCount(m, "lunch"),
        D \in PickCount(m, "dinner"), O \in SUBSET Ungrouped(m) }

Satisfying(m) ==
    LET carriers == Carriers(m)
    IN  { S \in Candidates(m) : Satisfies(m, carriers, S) }

Optimal(m) ==
    LET carriers == Carriers(m)
        sat == Satisfying(m)
        val == [S \in sat |-> Total(m, carriers, S, m.optimize)]
    IN  { S \in sat : \A T \in sat :
            IF m.opType = "min" THEN val[S] <= val[T] ELSE val[S] >= val[T] }

ResultObject(m, S, keepZeros) ==
    [feasible |-> TRUE, result |-> Total(m, Carriers(m), S, m.optimize),
     bounded |-> TRUE, isIntegral |-> TRUE] @@
    [k \in (IF keepZeros THEN DOMAIN m.variables ELSE S) |-> IF k \in S THEN 1 ELSE 0]

Infeasible == [feasible |-> FALSE, result |-> 0, bounded |-> TRUE, isIntegral |-> TRUE]

\* the results solver.Solve(m) may return, opt being the optimal selections:
\* one of them; the solver either lists the unselected variables with 0
\* (keepZeros) or leaves them out
Solve(m, opt, keepZeros) ==
    IF opt = {} THEN {Infeasible}
    ELSE { ResultObject(m, S, keepZeros) : S \in opt }

(* ------------------------------ the form ------------------------------- *)
\* the values the constructor puts in the form
DefaultProfile ==
    [ weight |-> DefaultWeight, height |-> DefaultHeight, age |-> DefaultAge,
      sex |-> "m", activityLevel |-> "low", target |-> "loose",
      wealthLevel |-> "student",
      preferences |-> [meatless |-> TRUE, lactoseFree |-> FALSE, glutenFree |-> FALSE] ]

Preferences == [meatless : BOOLEAN, lactoseFree : BOOLEAN, glutenFree : BOOLEAN]

\* forms that differ from the default in the body data
BodyProfiles ==
    { [DefaultProfile EXCEPT !.weight = w, !.height = h, !.age = a, !.sex = s,
                             !.activityLevel = l, !.target = t] :
        w \in DefaultWeight .. DefaultWeight + WeightSpan,
        h \in DefaultHeight .. DefaultHeight + HeightSpan,
        a \in DefaultAge .. DefaultAge + AgeSpan,
        s \in {"m", "f"}, l \in {"low", "moderate", "high"},
        t \in {"loose", "gain", "maintain"} }

\* forms that differ from the default in the choices
ChoiceProfiles ==
    { [DefaultProfile EXCEPT !.target = t, !.wealthLevel = wl, !.preferences = pr] :
        t \in {"loose", "maintain"},
        wl \in {"student", "average", "elon_musk"}, pr \in Preferences }

(* ---------------------------- plan assembler --------------------------- *)
IsOne(p, a) == Has(p, a) /\ p[a] = 1

NoLists == [breakfasts |-> <<>>, lunches |-> <<>>, dinners |-> <<>>]

RECURSIVE PartitionLoop(_, _, _, _, _)
\* for (const mealId in result): integer-like keys in ascending order, 0..n
PartitionLoop(res, catalog, i, n, lists) ==
    IF i > n THEN lists
    ELSE LET mealId == Key(i)
         IN  PartitionLoop(res, catalog, i + 1, n,
                 IF Has(res, mealId) /\ Has(catalog, mealId)
                 THEN IF IsOne(catalog[mealId], "breakfast")
                      THEN [lists EXCEPT !.breakfasts = Append(@, catalog[mealId])]
                      ELSE IF IsOne(catalog[mealId], "lunch")
                      THEN [lists EXCEPT !.lunches = Append(@, catalog[mealId])]
                      ELSE IF IsOne(catalog[mealId], "dinner")
                      THEN [lists EXCEPT !.dinners = Append(@, catalog[mealId])]
                      ELSE lists
                 ELSE lists)

\* Array.prototype.sort with (a, b) => a.kcal - b.kcal: ascending and stable
InsertByKcal(sorted, x) ==
    LET n == Cardinality({ j \in 1..Len(sorted) : sorted[j].kcal <= x.kcal })
    IN  SubSeq(sorted, 1, n) \o <<x>> \o SubSeq(sorted, n + 1, Len(sorted))

RECURSIVE SortLoop(_, _, _)
SortLoop(seq, i, acc) ==
    IF i > Len(seq) THEN acc ELSE SortLoop(seq, i + 1, InsertByKcal(acc, seq[i]))

SortByKcal(seq) == SortLoop(seq, 1, <<>>)

\* the dinner of day i taken at the fixed index 6 - i
DinnerIndexFromSix(len, i) == 6 - i

\* 0-based index of the dinner of day i
DinnerIndex(len, i) == len - 1 - i

\* the totals with each meal's kcal floored before the sum
TotalFlooredEach(b, l, d) ==
    [ protein |-> FloorDiv(b.protein + l.protein + d.protein, Den),
      carbs   |-> FloorDiv(b.carbs + l.carbs + d.carbs, Den),
      fat     |-> FloorDiv(b.fat + l.fat + d.fat, Den),
      kcal    |-> FloorDiv(b.kcal, Den) + FloorDiv(l.kcal, Den) + FloorDiv(d.kcal, Den),
      cost    |-> FloorDiv((b.cost + l.cost + d.cost) * 2, Den) ]

DayTotal(b, l, d) ==
    [ protein |-> FloorDiv(b.protein + l.protein + d.protein, Den),
      carbs   |-> FloorDiv(b.carbs + l.carbs + d.carbs, Den),
      fat     |-> FloorDiv(b.fat + l.fat + d.fat, Den),
      kcal    |-> FloorDiv(b.kcal + l.kcal + d.kcal, Den),
      cost    |-> FloorDiv((b.cost + l.cost + d.cost) * 2, Den) ]

\* seq[idx] of a JavaScript array is undefined outside 0 .. length - 1
Defined(seq, idx) == 0 <= idx /\ idx < Len(seq)

SortedLists(res, catalog, n) ==
    LET lists == PartitionLoop(res, catalog, 0, n, NoLists)
    IN  [ breakfasts |-> SortByKcal(lists.breakfasts),
          lunches    |-> SortByKcal(lists.lunches),
          dinners    |-> SortByKcal(lists.dinners) ]

\* some day reads a property of an undefined meal
DayThrows(lists) ==
    \E i \in 0..(DaysInPlan - 1) :
        \/ ~Defined(lists.breakfasts, i)
        \/ ~Defined(lists.lunches, i)
        \/ ~Defined(lists.dinners, DinnerIndex(Len(lists.dinners), i))

BuildDays(lists) ==
    [ d \in 1..DaysInPlan |->
        LET i == d - 1
            lunch == lists.lunches[i + 1]
            dinner == lists.dinners[DinnerIndex(Len(lists.dinners), i) + 1]
        IN  [ breakfast |-> lists.breakfasts[i + 1], lunch |-> lunch, dinner |-> dinner,
              total |-> DayTotal(lists.breakfasts[i + 1], lunch, dinner) ] ]

(* ------------------------------ operations ----------------------------- *)
\* state after construction: the catalog is converted, nothing submitted
Constructed(raw, f, input) ==
    /\ original = raw
    /\ meals = convertMeals(raw)
    /\ ints = convertToSimpleObject(convertMeals(raw))
    /\ form = f
    /\ userProfile = Undefined
    /\ model = Undefined
    /\ model2 = Undefined
    /\ result = Undefined
    /\ result2 = Undefined
    /\ planInput = input
    /\ planArg = Undefined
    /\ feasible = Undefined
    /\ days = Undefined
    /\ thrown = "none"

OnSubmit ==
    LET preferenceVariables == filterProductsByPreferences(meals, form.preferences)
        targetCalories == calculateCalories(form)
        targetCost == calculateCost(form.wealthLevel)
        mealTypeConstraints == createMealTypeConstraints
        constraintsNoCost ==
            Spread(Assign(convertToConstraintsObject(ints), "kcal", targetCalories),
                   mealTypeConstraints)
        constraints == Assign(constraintsNoCost, "cost", targetCost)
        m == [ optimize |-> "cost", opType |-> "min", constraints |-> constraints,
               variables |-> preferenceVariables, ints |-> ints ]
        m2 == [m EXCEPT !.opType = "min", !.optimize = "kcal_diff",
                        !.constraints = constraintsNoCost]
        opt == Optimal(m)
        opt2 == Optimal(m2)
    IN  /\ userProfile' = Obj(form)
        /\ model' = Obj(m)
        /\ model2' = Obj(m2)
        /\ \E keepZeros \in BOOLEAN :
              /\ result' \in { Obj(r) : r \in Solve(m, opt, keepZeros) }
              /\ result2' \in { Obj(r) : r \in Solve(m2, opt2, keepZeros) }
        /\ UNCHANGED <<original, meals, ints, form, planInput, planArg, feasible, days, thrown>>

Argument(src) ==
    IF src = "result" THEN result ELSE IF src = "result2" THEN result2 ELSE planInput

\* getDietPlanByDays(result) on this.result, this.result2 or a caller's object
GetDietPlanByDays(src) ==
    /\ Argument(src) # Undefined
    /\ LET stripped == Delete(The(Argument(src)), Metadata)
           lists == SortedLists(stripped, meals, Len(original))
       IN  /\ feasible' = IF Has(The(Argument(src)), "feasible")
                         THEN Obj(The(Argument(src)).feasible) ELSE Undefined
           /\ planArg' = Obj(stripped)
           /\ result' = IF src = "result" THEN Obj(stripped) ELSE result
           /\ result2' = IF src = "result2" THEN Obj(stripped) ELSE result2
           /\ planInput' = IF src = "input" THEN Obj(stripped) ELSE planInput
           /\ IF DayThrows(lists)
              THEN days' = Undefined /\ thrown' = "TypeError"
              ELSE days' = Obj(BuildDays(lists)) /\ thrown' = "none"
    /\ UNCHANGED <<original, meals, ints, form, userProfile, model, model2>>

\* the body data vary over a tiny catalog, the choices over the others
Init ==
    \/ \E f \in BodyProfiles : Constructed(TinyCollection, f, Undefined)
    \/ \E raw \in SmallCollections \cup FullCollections, f \in ChoiceProfiles :
          Constructed(raw, f, Undefined)

Next ==
    \/ OnSubmit
    \/ \E src \in {"result", "result2", "input"} : GetDietPlanByDays(src)

Spec == Init /\ [][Next]_vars

(* ------------------ the assembler on a caller's result ----------------- *)
\* a meal-id with no catalog record
GhostKey(raw) == Key(Len(raw))

\* result objects over the catalog's meal-ids: all selected, but for at most
\* MaxOdd ids that are left out or listed with 0; with or without a ghost id
ResultInputs(raw) ==
    LET ids == DOMAIN convertMeals(raw)
        odd == { O \in SUBSET ids : Cardinality(O) <= MaxOdd }
    IN  UNION { { [feasible |-> fe, result |-> 0, bounded |-> TRUE, isIntegral |-> TRUE] @@
                  [k \in ((ids \ { o \in O : how[o] = "absent" })
                            \cup (IF ghost THEN {GhostKey(raw)} ELSE {}))
                      |-> IF k \in O THEN 0 ELSE 1] :
                    fe \in BOOLEAN, ghost \in BOOLEAN, how \in [O -> {"absent", "zero"}] } :
                O \in odd }

InitPlan ==
    \E raw \in PlanCollections :
        \E input \in ResultInputs(raw) \cup {Infeasible} :
            Constructed(raw, DefaultProfile, Obj(input))

NextPlan == GetDietPlanByDays("input")

SpecPlan == InitPlan /\ [][NextPlan]_vars

(* ------------------------------- claims -------------------------------- *)
Submitted == userProfile # Undefined /\ model # Undefined
SubmittedProfile == The(userProfile)
KcalTarget == The(model).constraints["kcal"]

\* 100 * (bmr + adjustment) as the Mifflin-St Jeor formula states it
StatedEnergy100(p) ==
    1000 * p.weight + 625 * p.height - 500 * p.age
      + (IF p.sex = "m" THEN 500 ELSE -16100)
      + 100 * (CASE p.activityLevel = "low" -> 150
                 [] p.activityLevel = "moderate" -> 300
                 [] p.activityLevel = "high" -> 450)

\* M is the least multiple of 10 that is not below bmr + adjustment
IsMaintenance(p, M) ==
    /\ M % 10 = 0
    /\ 100 * M >= StatedEnergy100(p)
    /\ 100 * (M - 10) < StatedEnergy100(p)

\* C1: for every profile, calculateCalories returns the weekly target built
\* from maintenance = ceil((bmr + adjustment) / 10) * 10: loose gives
\* min = (maintenance - 500) * 7 and max = min + 1000, gain gives
\* min = (maintenance + 500) * 7 and max = min + 1000, maintain gives
\* min = maintenance * 7 and no max; there is never an 'equal' field.
C1_CaloriesContract ==
    Submitted =>
        LET p == SubmittedProfile
            t == KcalTarget
        IN  /\ ~Has(t, "equal")
            /\ Has(t, "min")
            /\ t.min % 7 = 0
            /\ CASE p.target = "loose" ->
                      /\ IsMaintenance(p, (t.min \div 7) + 500)
                      /\ DOMAIN t = {"min", "max"} /\ t.max = t.min + 1000
                 [] p.target = "gain" ->
                      /\ IsMaintenance(p, (t.min \div 7) - 500)
                      /\ DOMAIN t = {"min", "max"} /\ t.max = t.min + 1000
                 [] p.target = "maintain" ->
                      /\ IsMaintenance(p, t.min \div 7)
                      /\ DOMAIN t = {"min"}

\* a submitted female profile with a fractional bmr and target gain
C1_Witness ==
    /\ Submitted
    /\ SubmittedProfile.sex = "f"
    /\ SubmittedProfile.target = "gain"
    /\ StatedEnergy100(SubmittedProfile) % 100 # 0
    /\ KcalTarget.max = KcalTarget.min + 1000

IsExampleProfile(p) ==
    /\ p.weight = 68 /\ p.height = 172 /\ p.age = 25 /\ p.sex = "m"
    /\ p.activityLevel = "low" /\ p.target = "loose"

\* C2 as stated: for weight 68, height 172, age 25, sex m, activity low,
\* target loose, calculateCalories returns min = 9170 and max = 10170.
C2_ExampleAsStated ==
    (Submitted /\ IsExampleProfile(SubmittedProfile))
        => KcalTarget = [min |-> 9170, max |-> 10170]

\* C2 (amended): for weight 68, height 172, age 25, sex m, activity low,
\* target loose, calculateCalories returns min = 9030 and max = 10030
\* (bmr 1635, daily maintenance 1790).
C2_ExampleProfile ==
    (Submitted /\ IsExampleProfile(SubmittedProfile))
        => /\ KcalTarget = [min |-> 9030, max |-> 10030]
           /\ StatedEnergy100(SubmittedProfile) = 178500

\* the example profile has been submitted and a calorie range was returned
C2_Witness ==
    /\ Submitted
    /\ IsExampleProfile(SubmittedProfile)
    /\ DOMAIN KcalTarget = {"min", "max"}
    /\ The(model).optimize = "cost"

\* the record lacks a property the preferences require
Violates(prefs, record) ==
    \/ (prefs.lactoseFree /\ ~(Has(record, "isLactoseFree") /\ record["isLactoseFree"]))
    \/ (prefs.glutenFree /\ ~(Has(record, "isGlutenFree") /\ record["isGlutenFree"]))
    \/ (prefs.meatless /\ ~(Has(record, "isVegan") /\ record["isVegan"]))

Admitted(prefs) == { k \in DOMAIN meals : ~Violates(prefs, meals[k]) }

\* C3: filterProductsByPreferences returns exactly the entries of the catalog
\* (same meal-id, same record) whose record does not violate a preference;
\* it adds no entry and leaves the catalog unchanged.
C3_FilterExact ==
    /\ [](Submitted =>
            LET v == The(model).variables
            IN  /\ DOMAIN v = Admitted(SubmittedProfile.preferences)
                /\ \A k \in DOMAIN v : v[k] = meals[k])
    /\ [][meals' = meals /\ ints' = ints]_vars

\* a submission whose two preferences removed some meals and kept others
C3_Witness ==
    /\ Submitted
    /\ SubmittedProfile.preferences.glutenFree
    /\ SubmittedProfile.preferences.meatless
    /\ DOMAIN The(model).variables # {}
    /\ DOMAIN The(model).variables # DOMAIN meals

RawKeys == { original[i].key : i \in 1..Len(original) }

\* C4: the converted catalog has no entry for a raw key "default" and no
\* record named "default"; every other raw key yields exactly one entry,
\* under a MealId of its own.
C4_NoDefaultEntry ==
    /\ \A k \in DOMAIN meals : meals[k].name # "default"
    /\ \A key \in RawKeys \ {"default"} :
          Cardinality({ k \in DOMAIN meals : meals[k].name = key }) = 1
    /\ Cardinality(DOMAIN meals) = Cardinality(RawKeys \ {"default"})

\* a catalog converted from a collection with "default" between two meals
C4_Witness ==
    /\ \E i \in 2..(Len(original) - 1) : original[i].key = "default"
    /\ Cardinality(DOMAIN meals) = Len(original) - 1
    /\ ~Has(meals, Key(Len(original)))

IsCategory(record, cat) == Has(record, cat) /\ record[cat] = 1

\* the preferences remove every meal of the category cat
RemovesAll(prefs, cat) ==
    \A k \in DOMAIN meals : IsCategory(meals[k], cat) => Violates(prefs, meals[k])

SolvedUnread == result # Undefined /\ Has(The(result), "feasible")

\* C9: when the preferences remove every meal of some category, the
\* cost-minimizing model has no satisfying assignment and the cost-optimal
\* solve reports feasible = false.
C9_EmptyCategoryInfeasible ==
    (Submitted /\ SolvedUnread
       /\ \E cat \in Categories : RemovesAll(SubmittedProfile.preferences, cat))
        => /\ Satisfying(The(model)) = {}
           /\ The(result).feasible = FALSE

\* a full catalog whose breakfasts were all removed by the lactose preference
C9_Witness ==
    /\ Submitted /\ SolvedUnread
    /\ SubmittedProfile.preferences.lactoseFree
    /\ \E k \in DOMAIN meals : IsCategory(meals[k], "breakfast")
    /\ RemovesAll(SubmittedProfile.preferences, "breakfast")
    /\ Cardinality(DOMAIN The(model).variables) >= 2 * DaysInPlan
    /\ The(result).feasible = FALSE

\* C10: both models have the filtered catalog as variables and the same ints;
\* the second model's constraints are the first's without 'cost'; both hold
\* {max: 1} for every filtered meal-id, {min: 7, max: 7} for each category
\* and the calorie target under 'kcal'.
C10_SecondModelMinusCost ==
    Submitted =>
        LET m == The(model)
            m2 == The(model2)
        IN  /\ DOMAIN m.variables = Admitted(SubmittedProfile.preferences)
            /\ m2.variables = m.variables
            /\ m.ints = ints /\ m2.ints = ints
            /\ Has(m.constraints, "cost")
            /\ DOMAIN m2.constraints = (DOMAIN m.constraints) \ {"cost"}
            /\ \A c \in DOMAIN m2.constraints : m2.constraints[c] = m.constraints[c]
            /\ \A k \in DOMAIN m.variables :
                  Has(m2.constraints, k) /\ m2.constraints[k] = [max |-> 1]
            /\ \A cat \in Categories :
                  Has(m2.constraints, cat) /\ m2.constraints[cat] = [min |-> 7, max |-> 7]
            /\ m2.constraints["kcal"] = calculateCalories(SubmittedProfile)
            /\ m.optimize = "cost" /\ m2.optimize = "kcal_diff"

\* a submission with a non-empty filtered catalog and a cost ceiling
C10_Witness ==
    /\ Submitted
    /\ DOMAIN The(model).variables # {}
    /\ DOMAIN The(model).variables # DOMAIN meals
    /\ The(model).constraints["cost"] = [max |-> 500]
    /\ ~Has(The(model2).constraints, "cost")

(* ------------------------ claims on plan assembly ---------------------- *)
Called == planArg # Undefined
Returned == Called /\ days # Undefined

\* the meal-ids of category cat that the call listed: the keys left in the
\* result after the metadata is stripped that have a catalog record
Listed(cat) ==
    { k \in DOMAIN The(planArg) : Has(meals, k) /\ IsCategory(meals[k], cat) }

\* record is a listed meal of category cat that can stand at 0-based
\* position pos when the listed meals are put in ascending order of kcal
AtPosition(record, cat, pos) ==
    /\ \E k \in Listed(cat) : meals[k] = record
    /\ Cardinality({ k \in Listed(cat) : meals[k].kcal < record.kcal }) <= pos
    /\ pos < Cardinality({ k \in Listed(cat) : meals[k].kcal <= record.kcal })

EnoughListed == \A cat \in Categories : Cardinality(Listed(cat)) >= DaysInPlan

\* C5: a feasible result with at least 7 meals in each category gives exactly
\* 7 days; day i has the i-th breakfast and the i-th lunch in ascending order
\* of kcal, and total.kcal is the floor of the sum of its three meals' kcal.
C5_SevenDays ==
    (Called /\ feasible = Obj(TRUE) /\ EnoughListed) =>
        /\ days # Undefined
        /\ thrown = "none"
        /\ DOMAIN The(days) = 1..7
        /\ \A i \in 0..6 :
              LET day == The(days)[i + 1]
                  sum == day.breakfast.kcal + day.lunch.kcal + day.dinner.kcal
              IN  /\ AtPosition(day.breakfast, "breakfast", i)
                  /\ AtPosition(day.lunch, "lunch", i)
                  /\ \E k \in Listed("dinner") : meals[k] = day.dinner
                  /\ Den * day.total.kcal <= sum
                  /\ sum < Den * (day.total.kcal + 1)

\* a plan returned for a feasible result, with a day whose kcal sum is not whole
C5_Witness ==
    /\ Returned /\ feasible = Obj(TRUE) /\ EnoughListed
    /\ Len(The(days)) = 7
    /\ \E i \in 1..7 :
          LET day == The(days)[i]
          IN  (day.breakfast.kcal % Den) + (day.lunch.kcal % Den) + (day.dinner.kcal % Den) >= Den

\* C6 as stated: with at least 7 dinners (possibly more), the dinner of day i
\* is dinners[6 - i] of the dinners in ascending order of kcal.
C6_DinnerFromSix ==
    (Returned /\ Cardinality(Listed("dinner")) >= DaysInPlan) =>
        \A i \in 0..6 : AtPosition(The(days)[i + 1].dinner, "dinner", 6 - i)

\* C6 (amended): the dinner of day i is dinners[dinners.length - 1 - i] of the
\* dinners in ascending order of kcal: day 0 gets the heaviest dinner.
C6_DinnerFromEnd ==
    (Returned /\ Cardinality(Listed("dinner")) >= DaysInPlan) =>
        \A i \in 0..6 :
            AtPosition(The(days)[i + 1].dinner, "dinner",
                       Cardinality(Listed("dinner")) - 1 - i)

\* a plan returned for a result that lists more than 7 dinners
C6_Witness ==
    /\ Returned
    /\ Cardinality(Listed("dinner")) > DaysInPlan
    /\ \A k \in Listed("dinner") : The(days)[1].dinner.kcal >= meals[k].kcal

MealsOfPlan ==
    UNION { { The(days)[i].breakfast, The(days)[i].lunch, The(days)[i].dinner } :
              i \in DOMAIN The(days) }

\* C7: a meal is in the plan only if its meal-id is in the result with the
\* value 1; an id listed with 0 is in no day; an id without a catalog record
\* is skipped without error.
C7_OnlySelectedMeals ==
    Returned =>
        \A record \in MealsOfPlan :
            \E k \in DOMAIN The(planArg) :
                The(planArg)[k] = 1 /\ Has(meals, k) /\ meals[k] = record

\* C8: when some category has fewer than 7 meals, getDietPlanByDays reports
\* an assembly precondition violation, returns no plan and does not fail
\* with an unrelated runtime error.
C8_ShortCategoryReported ==
    (Called /\ ~EnoughListed) =>
        /\ days = Undefined
        /\ thrown = "InsufficientCategoryPool"

====
